---- MODULE Spec2Model ----
(***************************************************************************)
(* Model of sectionizer (src/src/lib.rs): Sectionizer::categorize, the     *)
(* frame reading loop compute_frame_vec, tree_from_vec and the clustering  *)
(* step get_sections.                                                      *)
(*                                                                         *)
(* Two specifications share the module:                                    *)
(*   Spec          the whole categorize call: stream set-up with `?`,      *)
(*                 the join! of the two frame readers, index building,     *)
(*                 matching and clustering;                                *)
(*   SpecSections  get_sections applied to bounded frame vectors whose     *)
(*                 indices span several seconds of video.                  *)
(***************************************************************************)
EXTENDS Integers, Sequences, FiniteSets, TLC

VARIABLES pc, src, pos, task, idx, frames, readEnd, failedStep, trees,
          sections, result, framevec, indextree, out

vars == <<pc, src, pos, task, idx, frames, readEnd, failedStep, trees,
          sections, result, framevec, indextree, out>>

catVars == <<pc, src, pos, task, idx, frames, readEnd, failedStep, trees,
             sections, result>>
secVars == <<framevec, indextree, out>>

\* ---------------------------------------------------------------- bounds
\* Longest stream, in complete frames, of the categorize specification.
MaxFrames == 3
\* Longest frame vector handed to get_sections in SpecSections.
MaxLen == 4
\* Last second of video a frame of SpecSections can lie in.
MaxSec == 6

\* ------------------------------------------------------ program constants
HASH_MAX_DIST == 2
FPS == 24
GAP_SECONDS == 5

\* Pixel buffers a stream can deliver, and the in-second offsets of the
\* frames of SpecSections.
Pixels == {0, 1, 2}
Offsets == {0, 1, 23}
SecHashes == {0, 15}

None == "none"
NoTree == [built |-> FALSE, tree |-> <<>>]
NoSections == [target |-> None, sections |-> <<>>]
NotComputed == [computed |-> FALSE, sections |-> <<>>]
Pending == [status |-> "pending", err |-> None, s1 |-> NoSections, s2 |-> NoSections]
NotRun == [ran |-> FALSE, sections |-> <<>>]

\* ------------------------------------------------------------ pure parts
Frame(h, i) == [hash |-> h, idx |-> i]

\* hasher.hash_image + u128::from_be_bytes: a deterministic map from the
\* pixel buffer to its hash.  Buffers 0 and 1 are similar (distance 1),
\* buffer 2 is far from both.
hash_image(p) == CASE p = 0 -> 0 [] p = 1 -> 1 [] OTHER -> 15

RECURSIVE count_ones_xor(_, _)
count_ones_xor(a, b) ==
    IF a = 0 /\ b = 0 THEN 0
    ELSE (IF a % 2 # b % 2 THEN 1 ELSE 0) + count_ones_xor(a \div 2, b \div 2)

hamming(a, b) == count_ones_xor(a.hash, b.hash)

tree_from_vec(fv) == fv

\* indextree.find(x, radius): the frames of the tree within the radius
\* (BkTree of the bktree crate, taken by its contract; get_sections uses
\* only whether the answer is empty, and its first element).
find(tree, x, radius) == SelectSeq(tree, LAMBDA y : hamming(x, y) <= radius)

\* .filter_map(|x| indextree.find(x, HASH_MAX_DIST).first().map(|y| (x, *y.0)))
RECURSIVE filter_map_keep_all(_, _)
filter_map_keep_all(tree, fv) ==
    IF fv = <<>> THEN <<>>
    ELSE LET x == Head(fv)
             r == find(tree, x, HASH_MAX_DIST)
         IN  <<<<x, IF r = <<>> THEN x ELSE Head(r)>>>>
                 \o filter_map_keep_all(tree, Tail(fv))

RECURSIVE filter_map(_, _)
filter_map(tree, fv) ==
    IF fv = <<>> THEN <<>>
    ELSE LET x == Head(fv)
             r == find(tree, x, HASH_MAX_DIST)
         IN  (IF r = <<>> THEN <<>> ELSE <<<<x, Head(r)>>>>)
                 \o filter_map(tree, Tail(fv))

\* framevec.sort_by(|x, y| x.0.idx.cmp(&y.0.idx))
sort_by_idx(m) == SortSeq(m, LAMBDA a, b : a[1].idx < b[1].idx)

\* baseframe_idx / 24 with baseframe_idx = idx - idx % 24
group_key(f) == (f.idx - (f.idx % FPS)) \div FPS

\* groups.entry(key).or_default().push(frame.0), for every matched frame
RECURSIVE group_frames(_, _)
group_frames(m, groups) ==
    IF m = <<>> THEN groups
    ELSE LET f == Head(m)[1]
             k == group_key(f)
             old == IF k \in DOMAIN groups THEN groups[k] ELSE <<>>
         IN  group_frames(Tail(m),
                 [j \in DOMAIN groups \cup {k} |->
                     IF j = k THEN Append(old, f) ELSE groups[j]])

EmptyMap == [j \in {} |-> <<>>]

\* .filter(|(_, x)| x.len() > 1)
keep_group_nonempty(x) == Len(x) > 0

keep_group(x) == Len(x) > 1

\* groups.sort_by(|a, b| a.0.cmp(&b.0)) over the collected (key, frames)
\* pairs; the keys of a HashMap are distinct.
RECURSIVE sort_keys_desc(_)
sort_keys_desc(S) ==
    IF S = {} THEN <<>>
    ELSE LET m == CHOOSE x \in S : \A y \in S : x >= y
         IN  <<m>> \o sort_keys_desc(S \ {m})

RECURSIVE sort_keys(_)
sort_keys(S) ==
    IF S = {} THEN <<>>
    ELSE LET m == CHOOSE x \in S : \A y \in S : x <= y
         IN  <<m>> \o sort_keys(S \ {m})

\* the predicate of group_by_mut: |(a, _), (b, _)| b - a <= 5
same_run_strict(a, b) == b - a < GAP_SECONDS

same_run(a, b) == b - a <= GAP_SECONDS

\* slice::group_by_mut: maximal runs whose consecutive elements satisfy
\* the predicate.
RECURSIVE group_by(_, _)
group_by(keys, acc) ==
    IF keys = <<>> THEN (IF acc = <<>> THEN <<>> ELSE <<acc>>)
    ELSE IF acc = <<>> \/ same_run(acc[Len(acc)], Head(keys))
         THEN group_by(Tail(keys), Append(acc, Head(keys)))
         ELSE <<acc>> \o group_by(Tail(keys), <<Head(keys)>>)

\* the closure mapped over the runs: first key, then
\* fold((first, 0), |(f, _), x| (f, x))
RECURSIVE fold_last(_, _)
fold_last(run, acc) ==
    IF run = <<>> THEN acc
    ELSE fold_last(Tail(run), <<acc[1], Head(run)>>)

run_span_first_only(x) ==
    LET first == IF x = <<>> THEN 0 ELSE Head(x)
    IN  <<first, first>>

run_span(x) ==
    LET first == IF x = <<>> THEN 0 ELSE Head(x)
    IN  fold_last(x, <<first, 0>>)

get_sections(tree, fv) ==
    LET m      == sort_by_idx(filter_map(tree, fv))
        groups == group_frames(m, EmptyMap)
        kept   == {k \in DOMAIN groups : keep_group(groups[k])}
        runs   == group_by(sort_keys(kept), <<>>)
    IN  [i \in 1..Len(runs) |-> run_span(runs[i])]

\* categorize, lines 90 and 91
sections1(indextree1, indextree2, framevec1, framevec2) ==
    get_sections(indextree2, framevec1)

sections2_own_tree(indextree1, indextree2, framevec1, framevec2) ==
    get_sections(indextree2, framevec2)

sections2(indextree1, indextree2, framevec1, framevec2) ==
    get_sections(indextree1, framevec2)

\* the `?` operator: continue on Ok, return the error on Err
question_mark_ignored(ok, next) == next

question_mark(ok, next) == IF ok THEN next ELSE "failed"

\* frames.push(Frame { hash, idx })
push_frame_off_by_one(fs, hash, i) == Append(fs, Frame(hash, i + 1))

push_frame(fs, hash, i) == Append(fs, Frame(hash, i))

\* join!: completes when both futures have completed
join_ready_any(t) == t[1] = "done" \/ t[2] = "done"

join_ready(t) == t[1] = "done" /\ t[2] = "done"

\* --------------------------------------------------------- Spec: categorize
RECURSIVE SeqsUpTo(_, _)
SeqsUpTo(S, n) ==
    IF n = 0 THEN {<<>>}
    ELSE LET shorter == SeqsUpTo(S, n - 1)
         IN  shorter \cup {Append(q, x) : q \in shorter, x \in S}

\* What the decoder of a file will deliver: its complete frames, and how
\* the stream ends: "short" is closure of the stream (a final short read),
\* "ioerr" a read failure while frames are being read.
Streams == [chunks : SeqsUpTo(Pixels, MaxFrames), fate : {"short", "ioerr"}]

Init ==
    /\ pc = "create1"
    /\ src \in Streams \X Streams
    /\ pos = <<0, 0>>
    /\ task = <<"idle", "idle">>
    /\ idx = <<0, 0>>
    /\ frames = <<<<>>, <<>>>>
    /\ readEnd = <<None, None>>
    /\ failedStep = None
    /\ trees = <<NoTree, NoTree>>
    /\ sections = <<NotComputed, NotComputed>>
    /\ result = Pending
    /\ framevec = <<>>
    /\ indextree = <<>>
    /\ out = NotRun

\* self.state.create / start / take_stdout (...).await?
Setup(step, next) ==
    /\ pc = step
    /\ \E ok \in BOOLEAN :
          /\ failedStep' = IF ok THEN failedStep ELSE step
          /\ pc' = question_mark(ok, next)
          /\ result' = IF pc' = "failed"
                           THEN [Pending EXCEPT !.status = "err", !.err = step]
                           ELSE result
    /\ UNCHANGED <<src, pos, task, idx, frames, readEnd, trees, sections>>
    /\ UNCHANGED secVars

Create1 == Setup("create1", "create2")
Create2 == Setup("create2", "start1")
Start1 == Setup("start1", "start2")
Start2 == Setup("start2", "take1")
TakeStdout1 == Setup("take1", "take2")
TakeStdout2 == Setup("take2", "join")

\* compute_frame_vec(stream_i): one iteration whose read_exact is Ok
ReadFrame(i) ==
    /\ pc = "join"
    /\ task[i] # "done"
    /\ pos[i] < Len(src[i].chunks)
    /\ frames' = [frames EXCEPT
                    ![i] = push_frame(@, hash_image(src[i].chunks[pos[i] + 1]), idx[i])]
    /\ idx' = [idx EXCEPT ![i] = @ + 1]
    /\ pos' = [pos EXCEPT ![i] = @ + 1]
    /\ task' = [task EXCEPT ![i] = "reading"]
    /\ UNCHANGED <<pc, src, readEnd, failedStep, trees, sections, result>>
    /\ UNCHANGED secVars

\* compute_frame_vec(stream_i): read_exact is not Ok, the loop ends and the
\* frames read so far are returned
ReadEnd(i) ==
    /\ pc = "join"
    /\ task[i] # "done"
    /\ pos[i] = Len(src[i].chunks)
    /\ readEnd' = [readEnd EXCEPT ![i] = src[i].fate]
    /\ task' = [task EXCEPT ![i] = "done"]
    /\ UNCHANGED <<pc, src, pos, idx, frames, failedStep, trees, sections, result>>
    /\ UNCHANGED secVars

JoinDone ==
    /\ pc = "join"
    /\ join_ready(task)
    /\ pc' = "tree1"
    /\ UNCHANGED <<src, pos, task, idx, frames, readEnd, failedStep, trees,
                   sections, result>>
    /\ UNCHANGED secVars

BuildTree(i, step, next) ==
    /\ pc = step
    /\ trees' = [trees EXCEPT ![i] = [built |-> TRUE, tree |-> tree_from_vec(frames[i])]]
    /\ pc' = next
    /\ UNCHANGED <<src, pos, task, idx, frames, readEnd, failedStep, sections, result>>
    /\ UNCHANGED secVars

Tree1 == BuildTree(1, "tree1", "tree2")
Tree2 == BuildTree(2, "tree2", "sections1")

Sections1 ==
    /\ pc = "sections1"
    /\ sections' = [sections EXCEPT ![1] =
          [computed |-> TRUE,
           sections |-> sections1(trees[1].tree, trees[2].tree, frames[1], frames[2])]]
    /\ pc' = "sections2"
    /\ UNCHANGED <<src, pos, task, idx, frames, readEnd, failedStep, trees, result>>
    /\ UNCHANGED secVars

Sections2 ==
    /\ pc = "sections2"
    /\ sections' = [sections EXCEPT ![2] =
          [computed |-> TRUE,
           sections |-> sections2(trees[1].tree, trees[2].tree, frames[1], frames[2])]]
    /\ pc' = "return"
    /\ UNCHANGED <<src, pos, task, idx, frames, readEnd, failedStep, trees, result>>
    /\ UNCHANGED secVars

Return ==
    /\ pc = "return"
    /\ result' = [status |-> "ok", err |-> None,
                  s1 |-> [target |-> "file1", sections |-> sections[1].sections],
                  s2 |-> [target |-> "file2", sections |-> sections[2].sections]]
    /\ pc' = "done"
    /\ UNCHANGED <<src, pos, task, idx, frames, readEnd, failedStep, trees, sections>>
    /\ UNCHANGED secVars

Next ==
    \/ Create1 \/ Create2 \/ Start1 \/ Start2 \/ TakeStdout1 \/ TakeStdout2
    \/ ReadFrame(1) \/ ReadFrame(2) \/ ReadEnd(1) \/ ReadEnd(2)
    \/ JoinDone \/ Tree1 \/ Tree2 \/ Sections1 \/ Sections2 \/ Return

Spec == Init /\ [][Next]_vars

\* ------------------------------------------------- SpecSections: get_sections
SecIdx == {s * FPS + o : s \in 0..MaxSec, o \in Offsets}

LastIdx(fv) == IF fv = <<>> THEN -1 ELSE fv[Len(fv)].idx

SecTrees == {<<>>, <<Frame(1, 0)>>}

SecCatInit ==
    /\ pc = "idle"
    /\ src = <<[chunks |-> <<>>, fate |-> "short"], [chunks |-> <<>>, fate |-> "short"]>>
    /\ pos = <<0, 0>>
    /\ task = <<"idle", "idle">>
    /\ idx = <<0, 0>>
    /\ frames = <<<<>>, <<>>>>
    /\ readEnd = <<None, None>>
    /\ failedStep = None
    /\ trees = <<NoTree, NoTree>>
    /\ sections = <<NotComputed, NotComputed>>
    /\ result = Pending

SecInit ==
    /\ SecCatInit
    /\ framevec = <<>>
    /\ indextree \in SecTrees
    /\ out = NotRun

\* the caller appends the next frame of the vector (decode order)
SecPush ==
    /\ ~out.ran
    /\ Len(framevec) < MaxLen
    /\ \E i \in SecIdx, h \in SecHashes :
          /\ i > LastIdx(framevec)
          /\ framevec' = Append(framevec, Frame(h, i))
    /\ UNCHANGED <<indextree, out>>
    /\ UNCHANGED catVars

SecRun ==
    /\ ~out.ran
    /\ out' = [ran |-> TRUE, sections |-> get_sections(indextree, framevec)]
    /\ UNCHANGED <<framevec, indextree>>
    /\ UNCHANGED catVars

SecNext == SecPush \/ SecRun

SpecSections == SecInit /\ [][SecNext]_vars

\* ------------------------------------------------------------------ claims
\* Vocabulary of the claims about get_sections, stated over the input of
\* the call (framevec, indextree) and its output (out).
IsMatched(f) == \E j \in DOMAIN indextree : hamming(f, indextree[j]) <= HASH_MAX_DIST
MatchedIdx == {framevec[k].idx : k \in {j \in DOMAIN framevec : IsMatched(framevec[j])}}
SecCount(s) == Cardinality({i \in MatchedIdx : i \div FPS = s})
Surviving == {s \in 0..MaxSec : SecCount(s) >= 2}
Lone == {s \in 0..MaxSec : SecCount(s) = 1}
OutSet == {out.sections[k] : k \in DOMAIN out.sections}
Covers(sec, s) == sec[1] <= s /\ s <= sec[2]
SameSection(a, b) == \E sec \in OutSet : Covers(sec, a) /\ Covers(sec, b)
ConsecutiveIn(S, a, b) == a \in S /\ b \in S /\ a < b /\ ~\E c \in S : a < c /\ c < b

\* C1 (as stated): no emitted Section has end - start at or below the
\* minimum duration; in particular no Section with end = start is emitted.
C1_Original ==
    out.ran => \A sec \in OutSet : sec[2] - sec[1] > 0

\* C1 (amended): get_sections applies no minimum duration: every emitted
\* Section has end - start >= 0 and every second that holds at least two
\* matched frames lies inside an emitted Section, so a run made of a single
\* such second is emitted with end = start.
C1_NoDurationFilter ==
    out.ran =>
        /\ \A sec \in OutSet : sec[2] - sec[1] >= 0
        /\ \A s \in Surviving : \E sec \in OutSet : Covers(sec, s)
        /\ \A s \in Surviving :
              (\A t \in Surviving : t = s \/ t - s > GAP_SECONDS \/ s - t > GAP_SECONDS)
                  => <<s, s>> \in OutSet

C1_Witness ==
    /\ out.ran
    /\ \E sec \in OutSet : sec[1] = sec[2] /\ sec[1] > 0
    /\ Lone # {}

\* C3 (as stated): two consecutive matched frames are in the same run, hence
\* the same Section, iff their index difference is strictly below
\* max_gap_seconds * fps.
C3_Original ==
    out.ran =>
        \A a, b \in MatchedIdx :
            ConsecutiveIn(MatchedIdx, a, b) =>
                (SameSection(a \div FPS, b \div FPS) <=> b - a < GAP_SECONDS * FPS)

\* C3 (amended): runs are formed over the seconds that hold at least two
\* matched frames: two consecutive such seconds are in the same Section iff
\* they are at most 5 seconds apart; a gap of exactly 5 seconds does not
\* split the run.
C3_GapInSeconds ==
    out.ran =>
        \A a, b \in Surviving :
            ConsecutiveIn(Surviving, a, b) =>
                (SameSection(a, b) <=> b - a <= GAP_SECONDS)

C3_Witness ==
    /\ out.ran
    /\ \E a, b \in MatchedIdx :
          /\ ConsecutiveIn(MatchedIdx, a, b)
          /\ b - a = GAP_SECONDS * FPS
          /\ (b \div FPS) - (a \div FPS) = GAP_SECONDS
          /\ SameSection(a \div FPS, b \div FPS)

\* C4: every Section returned by get_sections has start <= end, and each
\* Section starts after the previous one ends.
C4_Monotone ==
    out.ran =>
        /\ \A k \in DOMAIN out.sections : out.sections[k][1] <= out.sections[k][2]
        /\ \A k \in 1..(Len(out.sections) - 1) :
              out.sections[k + 1][1] > out.sections[k][2]

C4_Witness ==
    /\ out.ran
    /\ Len(out.sections) >= 2
    /\ out.sections[2][1] - out.sections[1][2] = GAP_SECONDS + 1

\* C10: a second with exactly one matched frame is discarded before runs are
\* formed: removing the frames that are alone in their second from the input
\* leaves the output unchanged, and the start and end second of every Section
\* hold at least two matched frames each.
WithoutLone ==
    SelectSeq(framevec, LAMBDA f : ~(IsMatched(f) /\ (f.idx \div FPS) \in Lone))

C2_ReadFailureIsFatal ==
    result.status = "ok" => \A i \in {1, 2} : readEnd[i] # "ioerr"

\* C5: a failure of create, start or take_stdout for either file makes
\* categorize return that error with no Sections; nothing is read, indexed,
\* matched or clustered after the failing step.
C5_SetupFailureFatal ==
    failedStep # None =>
        /\ pc = "failed"
        /\ result = [Pending EXCEPT !.status = "err", !.err = failedStep]
        /\ pos = <<0, 0>> /\ frames = <<<<>>, <<>>>>
        /\ task = <<"idle", "idle">>
        /\ trees = <<NoTree, NoTree>>
        /\ sections = <<NotComputed, NotComputed>>

C5_Witness ==
    /\ pc = "failed"
    /\ failedStep = "take2"
    /\ Len(src[1].chunks) > 0

\* C6: no index is built and no matching or clustering starts before both
\* extractions have reached the end of their stream, and the frames obtained
\* for a file are those of its own stream whatever the interleaving.
ExpectedFrames(chunks) ==
    [k \in 1..Len(chunks) |-> Frame(hash_image(chunks[k]), k - 1)]

C6_JoinBarrier ==
    /\ (\/ pc \in {"tree1", "tree2", "sections1", "sections2", "return", "done"}
        \/ \E i \in {1, 2} : trees[i].built \/ sections[i].computed)
          => \A i \in {1, 2} : task[i] = "done"
    /\ \A i \in {1, 2} :
          task[i] = "done" => frames[i] = ExpectedFrames(src[i].chunks)

C6_Witness ==
    /\ pc = "join"
    /\ task[2] = "done" /\ task[1] = "reading"
    /\ Len(frames[2]) = MaxFrames /\ Len(frames[1]) >= 1
    /\ ~trees[1].built /\ ~trees[2].built

\* C7: the Sections computed for a file are the same whether it is given as
\* the first or as the second argument of categorize.
C7_Symmetry ==
    pc = "done" =>
        /\ result.s1.sections =
              sections2(tree_from_vec(frames[2]), tree_from_vec(frames[1]),
                        frames[2], frames[1])
        /\ result.s2.sections =
              sections1(tree_from_vec(frames[2]), tree_from_vec(frames[1]),
                        frames[2], frames[1])

C7_Witness ==
    /\ pc = "done"
    /\ result.s1.sections # <<>>
    /\ result.s2.sections = <<>>
    /\ frames[2] # <<>>

\* C8: when the frame sequence of either file is empty, categorize succeeds
\* and both Section lists are empty.
C8_EmptyInput ==
    (pc = "done" /\ (frames[1] = <<>> \/ frames[2] = <<>>)) =>
        /\ result.status = "ok"
        /\ result.s1.sections = <<>>
        /\ result.s2.sections = <<>>

C8_Witness ==
    /\ pc = "done"
    /\ frames[1] = <<>>
    /\ Len(frames[2]) >= 2

\* C9: compute_frame_vec yields one Frame per complete chunk, in decode
\* order, with indices 0, 1, ..., n-1; a final short read ends the sequence
\* without an error and leaves the frames read before it unchanged.
IsPrefix(p, q) == Len(p) <= Len(q) /\ SubSeq(q, 1, Len(p)) = p

C9_State ==
    \A i \in {1, 2} :
        /\ Len(frames[i]) = pos[i]
        /\ \A k \in DOMAIN frames[i] :
              /\ frames[i][k].idx = k - 1
              /\ frames[i][k].hash = hash_image(src[i].chunks[k])
        /\ task[i] = "done" =>
              /\ Len(frames[i]) = Len(src[i].chunks)
              /\ result.status # "err"

C9_Step ==
    \A i \in {1, 2} :
        /\ IsPrefix(frames[i], frames'[i])
        /\ Len(frames'[i]) <= Len(frames[i]) + 1
        /\ (task[i] = "done" \/ task'[i] = "done") => frames'[i] = frames[i]

C9_OneFramePerChunk == [](C9_State) /\ [][C9_Step]_vars

C9_Witness ==
    /\ task[1] = "done"
    /\ readEnd[1] = "short"
    /\ Len(frames[1]) = MaxFrames
    /\ pc = "done"

====
